---- MODULE Spec2Model ----
(***************************************************************************)
(* Model of the EmmeTI Febos integration: FebosSession (session.py),       *)
(* NormalizedInput (normalization.py) and FebosDataUpdateCoordinator       *)
(* (coordinator.py).                                                       *)
(*                                                                         *)
(* Value encoding.  Python values are pairs <<tag, n>>:                    *)
(*   <<"none",0>>            None                                          *)
(*   <<"int",n>> <<"float",n>> <<"str",n>>   a stored raw value of that    *)
(*                           Python type holding the number n              *)
(*   <<"bool",b>>            b = 1 for True, 0 for False                   *)
(*   <<"num",m>>             a displayed number, m in thousandths          *)
(* Vendor raw values are integers (register contents).                     *)
(***************************************************************************)
EXTENDS Integers, Sequences, FiniteSets, TLC

(***************************************************************************)
(* Bounds of the model.                                                    *)
(***************************************************************************)
NumWriters == 2
MaxBatch == 3
MaxWalk == 3

None == <<"none", 0>>

FEBOS_DOMAIN == "febos"

(***************************************************************************)
(* session.py: unique_key.  An absent optional argument is "".             *)
(***************************************************************************)
RECURSIVE Join(_, _)
Join(parts, sep) ==
    IF Len(parts) = 0 THEN ""
    ELSE IF Len(parts) = 1 THEN parts[1]
    ELSE parts[1] \o sep \o Join(Tail(parts), sep)

unique_key_unseparated(installation_id, device_id, thing_id, input_code, domain) ==
    domain \o ToString(installation_id) \o ToString(device_id) \o ToString(thing_id)
        \o input_code

unique_key(installation_id, device_id, thing_id, input_code, domain) ==
    LET p1 == IF domain # "" THEN <<domain>> ELSE <<>>
        p2 == <<ToString(installation_id), ToString(device_id), ToString(thing_id)>>
        p3 == IF input_code # "" THEN <<input_code>> ELSE <<>>
    IN  Join(p1 \o p2 \o p3, "_")

(***************************************************************************)
(* normalization.py: the fixed tables.                                     *)
(***************************************************************************)
BoolForcedCodes == {"R8648", "R8967", "R9071", "R9072", "R9076", "R9078", "R9079"}

BySixtyCodes == {"R9120"}
ThousandCodes == {"R8208", "R8209", "R8211", "R8212", "R8214", "R8215", "R8217",
                  "R8218", "R8111", "R8112", "R8220", "R8221", "R8222", "R8223"}
TenthCodes == {"R8100", "R8665", "R8666", "R8678", "R8680", "R8698", "R8702",
               "R8703", "R8986", "R8987", "R8988", "R8989", "R9042", "R9051",
               "R9052", "R16444", "R16446", "R16448", "R16450", "R16451",
               "R16453", "R16455", "R16457", "R16494", "R16495", "R16496",
               "R16497", "R16515"}
HundredCodes == {"R8684", "R8686", "R8688", "R8690", "R16534"}
ByTenCodes == {"R9121", "R9122", "R9123", "R9126", "R9127", "R9128", "R9129"}
CtwoThousandCodes == {"R8002", "R8005", "R8008", "R8011"}
CtwoCodes == {"R8105", "R8110"}

ScaledCodes == BySixtyCodes \cup ThousandCodes \cup TenthCodes \cup HundredCodes
               \cup ByTenCodes \cup CtwoThousandCodes \cup CtwoCodes

ColdCodes == {"R8648", "R8683", "R8684", "R16385"}
ProblemCodes == {"R9089", "R9090", "R9095", "R9096", "R9097", "R9098", "R9099",
                 "R9102", "R9103", "R9104"}
RunningCodes == {"R16384", "R8681", "R8682", "R8692", "R8967", "R9071", "R9072",
                 "R9073", "R9074", "R9076", "R9078", "R9079"}
WindowCodes == {"R8672"}
PresenceCodes == {"R8673", "R8676"}

ForceReadOnlyCodes == {"R8681", "R8682", "R16515"}
ForceReadOnlyModel == 8

int16_from_32769(v) == IF v <= 32768 THEN v ELSE v - 65536

\* A 16-bit two's-complement register read as a signed integer.
int16(v) == IF v < 32768 THEN v ELSE v - 65536

(***************************************************************************)
(* The scaling functions, on an integer raw value, result in thousandths.  *)
(***************************************************************************)
scale_fn_tenth_as_hundred(code, v) ==
    IF code \in BySixtyCodes THEN v * 60000
    ELSE IF code \in ThousandCodes THEN v
    ELSE IF code \in TenthCodes THEN v * 10
    ELSE IF code \in HundredCodes THEN v * 10
    ELSE IF code \in ByTenCodes THEN v * 10000
    ELSE IF code \in CtwoThousandCodes THEN int16(v)
    ELSE IF code \in CtwoCodes THEN int16(v) * 1000
    ELSE v * 1000

scale_fn(code, v) ==
    IF code \in BySixtyCodes THEN v * 60000
    ELSE IF code \in ThousandCodes THEN v
    ELSE IF code \in TenthCodes THEN v * 100
    ELSE IF code \in HundredCodes THEN v * 10
    ELSE IF code \in ByTenCodes THEN v * 10000
    ELSE IF code \in CtwoThousandCodes THEN int16(v)
    ELSE IF code \in CtwoCodes THEN int16(v) * 1000
    ELSE v * 1000

(***************************************************************************)
(* NormalizedInput: a record                                               *)
(*   [key, installation_id, thing_model_id, device_info, listener, input,  *)
(*    value]                                                               *)
(* where input is the vendor Input definition                              *)
(*   [deviceId, thingId, code, category, inputType, defaultIntValue]       *)
(***************************************************************************)
NormalizedInput_any_default(key, installation_id, thing_model_id, device_info, input_entry) ==
    [key |-> key,
     installation_id |-> installation_id,
     thing_model_id |-> thing_model_id,
     device_info |-> device_info,
     listener |-> FALSE,
     input |-> input_entry,
     value |-> IF input_entry.defaultIntValue # None
               THEN <<"int", input_entry.defaultIntValue[2]>>
               ELSE None]

NormalizedInput(key, installation_id, thing_model_id, device_info, input_entry) ==
    [key |-> key,
     installation_id |-> installation_id,
     thing_model_id |-> thing_model_id,
     device_info |-> device_info,
     listener |-> FALSE,
     input |-> input_entry,
     value |-> IF input_entry.inputType = "INT" /\ input_entry.defaultIntValue # None
               THEN <<"int", input_entry.defaultIntValue[2]>>
               ELSE None]

value_type(ni) ==
    IF ni.input.code \in BoolForcedCodes THEN "bool"
    ELSE CASE ni.input.inputType = "INT" -> "int"
           [] ni.input.inputType = "FLOAT" -> "float"
           [] ni.input.inputType = "BOOL" -> "bool"
           [] ni.input.inputType = "STRING" -> "str"

(***************************************************************************)
(* NormalizedInput.measurement_unit.  A vendor unit string is <<"str", s>> *)
(* or None; the resolved unit is a string, the value of the host's unit    *)
(* constant.                                                               *)
(***************************************************************************)

\* The per-code table of measurement_unit: its entry for code, or
\* vendor_unit when it has none (dict.get with a default).
override_unit(code, vendor_unit) ==
    IF code = "CT_UPTIME" THEN <<"str", "h">>
    ELSE IF code \in
               {"R16494", "R16495", "R16496", "R16497", "R16515", "R8680",
                "R8203", "R8204", "R9042", "R9051", "R9052"}
         THEN <<"str", "°C">>
    ELSE IF code \in
               {"R8002", "R8005", "R8008", "R8011", "R8665", "R8666",
                "R8756", "R8757", "R8758", "R8759", "R8760", "R8761",
                "R8762", "R8763", "R8764"}
         THEN <<"str", "kW">>
    ELSE IF code \in
               {"R8100", "R8400"}
         THEN <<"str", "V">>
    ELSE IF code \in
               {"R8105", "R8110", "R8403", "R8404", "R9121", "R9122",
                "R9123", "R9126", "R9127", "R9128", "R9129"}
         THEN <<"str", "W">>
    ELSE IF code \in
               {"R8111", "R8112", "R8401", "R8402"}
         THEN <<"str", "A">>
    ELSE IF code \in
               {"R8113", "R8114", "R8405", "R8406", "R8407"}
         THEN <<"str", "Hz">>
    ELSE IF code \in
               {"R8208", "R8209", "R8211", "R8212", "R8214", "R8215",
                "R8217", "R8218"}
         THEN <<"str", "ms">>
    ELSE IF code \in
               {"R8660", "R8661"}
         THEN <<"str", "%">>
    ELSE IF code \in
               {"R8765", "R8766", "R8767", "R8768", "R8769", "R8770",
                "R8771", "R8772", "R8773"}
         THEN <<"str", "Wh">>
    ELSE IF code = "R9120" THEN <<"str", "L/min">>
    ELSE IF code = "R16493" THEN <<"str", "min">>
    ELSE vendor_unit

raw_unit_or_empty(mu) ==
    IF mu = "HH:mm" THEN "min"
    ELSE IF mu = "watt/h" THEN "Wh"
    ELSE IF mu = "e/kw" THEN "€"
    ELSE ""

\* The raw-unit table of measurement_unit, looked up with .get(mu, mu).
raw_unit(mu) ==
    IF mu = "HH:mm" THEN "min"
    ELSE IF mu = "watt/h" THEN "Wh"
    ELSE IF mu = "e/kw" THEN "€"
    ELSE mu

measurement_unit(ni) ==
    LET mu == override_unit(ni.input.code, ni.input.measUnit)
    IN  raw_unit(IF mu = None \/ mu[2] = "" THEN "" ELSE mu[2])

\* value_type(value) of a vendor raw value (an integer), None kept as None.
convert(vt, raw) ==
    IF raw = None THEN None
    ELSE IF vt = "bool" THEN <<"bool", IF raw[2] # 0 THEN 1 ELSE 0>>
    ELSE <<vt, raw[2]>>

\* The value setter: stores the converted value.
set_raw_value(ni, raw) == [ni EXCEPT !.value = convert(value_type(ni), raw)]

\* The listener invocations of the value setter: it compares the old and the
\* new value only to write a debug line, and never calls self.listener.
setter_listener_calls(ni, raw) == 0

(***************************************************************************)
(* febos.py: FebosResourceData of the legacy client, a record              *)
(*   [value_type, value, listener, err]                                    *)
(* err is the exception the last set_value raised, or "".                  *)
(***************************************************************************)
\* self.value_type(value): int(None) and float(None) raise TypeError,
\* bool(None) is False.
resource_convert(vt, raw) ==
    IF raw = None
    THEN (IF vt = "bool" THEN <<"bool", 0>> ELSE <<"TypeError", 0>>)
    ELSE convert(vt, raw)

resource_set_value(res, raw) ==
    LET new == resource_convert(res.value_type, raw)
    IN  IF new[1] = "TypeError" THEN [res EXCEPT !.err = "TypeError"]
        ELSE [res EXCEPT !.value = new, !.err = ""]

\* if self.listener is not None and old_value != self.value: self.listener()
resource_listener_calls(res, raw) ==
    LET new == resource_convert(res.value_type, raw)
    IN  IF new[1] # "TypeError" /\ res.listener /\ res.value # new THEN 1 ELSE 0

binary_sensor_device_class(ni) ==
    LET c == ni.input.code
    IN  IF c \in ColdCodes THEN "cold"
        ELSE IF c \in ProblemCodes THEN "problem"
        ELSE IF c \in RunningCodes THEN "running"
        ELSE IF c \in WindowCodes THEN "window"
        ELSE IF c \in PresenceCodes THEN "presence"
        ELSE "KeyError"

entity_type(ni) ==
    LET force_read_only == ni.thing_model_id = ForceReadOnlyModel
                           \/ ni.input.code \in ForceReadOnlyCodes
        vt == value_type(ni)
    IN  IF ni.input.category = "C_PARAMETER" /\ ~force_read_only
        THEN (IF vt = "bool" THEN "switch"
              ELSE IF vt \in {"float", "int"} THEN "number"
              ELSE "KeyError")
        ELSE IF ni.input.category = "C_DATA" \/ force_read_only
        THEN (IF vt = "bool" THEN "binary_sensor" ELSE "sensor")
        ELSE "ValueError"

Raises == {<<"KeyError", 0>>, <<"ValueError", 0>>}

IsRaise(v) == v \in Raises

scaled_value(ni) ==
    IF ni.value = None THEN None
    ELSE IF ni.input.code \in ScaledCodes \/ ni.value[1] \in {"int", "float"}
         THEN <<"num", scale_fn(ni.input.code, ni.value[2])>>
         ELSE ni.value

binary_sensor_normalized_value(ni) ==
    IF ni.value = None THEN None
    ELSE IF binary_sensor_device_class(ni) = "KeyError" THEN <<"KeyError", 0>>
    ELSE IF binary_sensor_device_class(ni) = "cold"
         THEN <<"bool", IF ni.value[2] # 0 THEN 0 ELSE 1>>
         ELSE <<"bool", IF ni.value[2] # 0 THEN 1 ELSE 0>>

switch_normalized_value(ni) ==
    IF ni.value = None THEN None
    ELSE <<"bool", IF ni.value[2] # 0 THEN 1 ELSE 0>>

normalized_value(ni) ==
    LET et == entity_type(ni)
    IN  IF et \in {"KeyError", "ValueError"} THEN <<et, 0>>
        ELSE IF et = "binary_sensor" THEN binary_sensor_normalized_value(ni)
        ELSE IF et = "sensor" THEN scaled_value(ni)
        ELSE IF et = "switch" THEN switch_normalized_value(ni)
        ELSE scaled_value(ni)

(***************************************************************************)
(* The write-path conversion NormalizedInput.to_original_scale: the        *)
(* requested displayed value (<<"bool",b>> or <<"num",m>>) back to the     *)
(* vendor's raw scale: the inverse of the code's scaling function, rounded *)
(* to the raw type's resolution.  True/False become 1/0.                   *)
(***************************************************************************)
RoundDiv(a, b) == (a + b \div 2) \div b

to_original_scale(ni, requested) ==
    LET code == ni.input.code
        m == IF requested[1] = "bool" THEN requested[2] * 1000 ELSE requested[2]
    IN  IF value_type(ni) = "bool" THEN <<"int", IF m # 0 THEN 1 ELSE 0>>
        ELSE IF code \in BySixtyCodes THEN <<"int", RoundDiv(m, 60000)>>
        ELSE IF code \in ThousandCodes THEN <<"int", m>>
        ELSE IF code \in TenthCodes THEN <<"int", RoundDiv(m, 100)>>
        ELSE IF code \in HundredCodes THEN <<"int", RoundDiv(m, 10)>>
        ELSE IF code \in ByTenCodes THEN <<"int", RoundDiv(m, 10000)>>
        ELSE IF code \in CtwoThousandCodes THEN <<"int", m % 65536>>
        ELSE IF code \in CtwoCodes THEN <<"int", RoundDiv(m, 1000) % 65536>>
        ELSE <<"int", RoundDiv(m, 1000)>>

(***************************************************************************)
(* The vendor side: what the page-configuration, realtime and login        *)
(* endpoints may answer.                                                   *)
(***************************************************************************)
Input(deviceId, thingId, code, category, inputType, defaultIntValue) ==
    [deviceId |-> deviceId, thingId |-> thingId, code |-> code,
     category |-> category, inputType |-> inputType,
     defaultIntValue |-> defaultIntValue, measUnit |-> None]

\* The same input definition with the vendor's unit string u.
WithUnit(input_entry, u) == [input_entry EXCEPT !.measUnit = u]

Thing(id, deviceId, modelId) == [id |-> id, deviceId |-> deviceId, modelId |-> modelId]

InSet == Input(10, 20, "R16494", "C_PARAMETER", "INT", None)
InSetDup == Input(10, 20, "R16494", "C_DATA", "INT", None)
InSw == Input(10, 20, "R8648", "C_PARAMETER", "INT", None)
InTemp == Input(10, 21, "R9051", "C_DATA", "INT", None)
InOther == Input(10, 20, "R7000", "C_OTHER", "INT", None)
InOrphan == Input(10, 29, "R9051", "C_DATA", "INT", None)

PageConfig(deviceMap, thingMap, pageGroups, walk) ==
    [ok |-> TRUE, deviceMap |-> deviceMap, thingMap |-> thingMap,
     pageGroups |-> pageGroups, walk |-> walk]

Group(code, inputList) == [inputGroupGetCode |-> code, inputList |-> inputList]

CfgA == PageConfig({10}, <<Thing(20, 10, 1)>>, {"G0"},
                   <<Group("G1", <<InSet, InSw>>), Group("G2", <<InSetDup>>)>>)
CfgB == PageConfig({10}, <<Thing(20, 10, 1), Thing(21, 10, 1)>>, {},
                   <<Group("G1", <<InTemp>>), Group("G3", <<InTemp>>)>>)
CfgOther == PageConfig({10}, <<Thing(20, 10, 1)>>, {},
                       <<Group("G1", <<InSw, InOther>>)>>)
CfgNoDevice == PageConfig({10}, <<Thing(20, 10, 1), Thing(22, 11, 1)>>, {},
                          <<Group("G1", <<InSw>>)>>)
CfgOrphan == PageConfig({10}, <<Thing(20, 10, 1)>>, {},
                        <<Group("G1", <<InSw, InOrphan>>)>>)
CfgFetchError == [ok |-> FALSE, deviceMap |-> {}, thingMap |-> <<>>,
                  pageGroups |-> {}, walk |-> <<>>]

LoginResponses == {<<1>>, <<1, 2>>}

RECURSIVE SeqsUpTo(_, _)
SeqsUpTo(S, n) ==
    IF n = 0 THEN {<<>>}
    ELSE LET shorter == SeqsUpTo(S, n - 1)
         IN  shorter \cup {Append(q, x) : q \in {r \in shorter : Len(r) = n - 1}, x \in S}

\* Outcomes of RealtimeDataEndpoint.get other than a batch.
FetchErrors == {"HTTP401", "HTTP500", "ConnectError"}

\* Outcomes of RealtimeDataEndpoint.post.
WriteResponses == {"errCode0", "errCode5", "HTTPStatusError", "ConnectError"}

Range(f) == {f[x] : x \in DOMAIN f}

(***************************************************************************)
(* FebosSession.discover.  An operator result is [err, val]: err = "" and  *)
(* the value, or the name of the exception raised.                         *)
(***************************************************************************)
Ok(v) == [err |-> "", val |-> v]
Err(e) == [err |-> e, val |-> <<>>]

DeviceInfo(installation_id, thing) ==
    [identifiers |-> unique_key(installation_id, thing.deviceId, thing.id, "", ""),
     name |-> thing.id]

skip_thing(rest) == rest

\* response.deviceMap[str(thing.deviceId)] for a device id the map lacks:
\* KeyError leaves discover; rest is the outcome of the remaining things.
missing_device(rest) == Err("KeyError")

\* The loop over response.thingMap: the (installation, device, thing)
\* identity records, or KeyError when a thing's device is not in deviceMap.
RECURSIVE discover_things(_, _, _, _)
discover_things(installation_id, response, things, acc) ==
    IF things = <<>> THEN Ok(acc)
    ELSE LET thing == Head(things)
             id == <<installation_id, thing.deviceId, thing.id>>
         IN  IF id \in DOMAIN acc
             THEN discover_things(installation_id, response, Tail(things), acc)
             ELSE IF thing.deviceId \notin response.deviceMap
             THEN missing_device(discover_things(installation_id, response,
                                                 Tail(things), acc))
             ELSE discover_things(installation_id, response, Tail(things),
                                  acc @@ (id :> DeviceInfo(installation_id, thing)))

thing_of(response, thingId) ==
    CHOOSE t \in Range(response.thingMap) : t.id = thingId

replace_by_later(acc, id, ni) == [acc EXCEPT ![id] = ni]

\* What the walk does with an input whose (installation, device, thing, code)
\* is already in the table: the first occurrence stays.
keep_first(acc, id, ni) == acc

skip_unregistered(rest) == rest

\* An input entry whose (installation, deviceId, thingId) has no DeviceInfo:
\* ValueError leaves discover; rest is the outcome of the remaining entries.
device_not_found(rest) == Err("ValueError")

\* The walk over one group's inputList.
RECURSIVE discover_inputs(_, _, _, _, _)
discover_inputs(installation_id, response, devs, entries, acc) ==
    IF entries = <<>> THEN Ok(acc)
    ELSE LET input_entry == Head(entries)
             id == <<installation_id, input_entry.deviceId, input_entry.thingId,
                     input_entry.code>>
             owner == <<installation_id, input_entry.deviceId, input_entry.thingId>>
         IN  IF id \in DOMAIN acc
             THEN discover_inputs(installation_id, response, devs, Tail(entries),
                      keep_first(acc, id,
                          NormalizedInput(
                              unique_key(installation_id, input_entry.deviceId,
                                         input_entry.thingId, input_entry.code,
                                         FEBOS_DOMAIN),
                              installation_id,
                              thing_of(response, input_entry.thingId).modelId,
                              devs[owner], input_entry)))
             ELSE IF owner \notin DOMAIN devs
             THEN device_not_found(discover_inputs(installation_id, response, devs,
                                                   Tail(entries), acc))
             ELSE discover_inputs(installation_id, response, devs, Tail(entries),
                      acc @@ (id :> NormalizedInput(
                          unique_key(installation_id, input_entry.deviceId,
                                     input_entry.thingId, input_entry.code,
                                     FEBOS_DOMAIN),
                          installation_id,
                          thing_of(response, input_entry.thingId).modelId,
                          devs[owner], input_entry)))

\* The walk over the widget input groups, in walk order.
RECURSIVE discover_walk(_, _, _, _, _)
discover_walk(installation_id, response, devs, walk, acc) ==
    IF walk = <<>> THEN Ok(acc)
    ELSE LET r == discover_inputs(installation_id, response, devs,
                                  Head(walk).inputList, acc)
         IN  IF r.err # "" THEN r
             ELSE discover_walk(installation_id, response, devs, Tail(walk), r.val)

discover_groups_of_pages(response) == response.pageGroups

\* groups[installation_id]: the codes the pages, tabs and widgets list, and
\* the code of every widget input group the walk enters.
discover_groups(response) ==
    response.pageGroups \cup {g.inputGroupGetCode : g \in Range(response.walk)}

\* One iteration of the loop over self.installations.
discover_installation(installation_id, response) ==
    IF ~response.ok THEN Err("HTTPError")
    ELSE LET d == discover_things(installation_id, response, response.thingMap, <<>>)
         IN  IF d.err # "" THEN d
             ELSE LET w == discover_walk(installation_id, response, d.val,
                                         response.walk, <<>>)
                  IN  IF w.err # "" THEN w
                      ELSE Ok([groups |-> discover_groups(response),
                               devices |-> d.val, inputs |-> w.val])

\* The whole of discover: the local tables built over all installations.
RECURSIVE discover(_, _, _)
discover(insts, responses, acc) ==
    IF insts = <<>> THEN Ok(acc)
    ELSE LET i == Head(insts)
             r == discover_installation(i, responses[i])
         IN  IF r.err # "" THEN r
             ELSE discover(Tail(insts), responses,
                      [groups |-> [j \in (DOMAIN acc.groups) \cup {i} |->
                                      IF j = i THEN r.val.groups ELSE acc.groups[j]],
                       devices |-> r.val.devices @@ acc.devices,
                       inputs |-> r.val.inputs @@ acc.inputs])

EmptyTables == [groups |-> <<>>, devices |-> <<>>, inputs |-> <<>>]

build_inputs_map(inps) ==
    [k \in {inps[id].key : id \in DOMAIN inps} |->
        CHOOSE id \in DOMAIN inps : inps[id].key = k]

(***************************************************************************)
(* FebosSession.update: applying one realtime response, and the            *)
(* projection both update and set_value return.                            *)
(***************************************************************************)
lookup(inps, installation_id, tuple) ==
    <<installation_id, tuple[1], tuple[2], tuple[3]>>

stop_after_unknown(rest) == <<>>

\* What the loop does after a tuple that matches no input: it goes on.
after_unknown(rest) == rest

\* The loop over the (deviceId, thingId, code, value) tuples of a response.
RECURSIVE apply_batch(_, _, _)
apply_batch(inps, installation_id, batch) ==
    IF batch = <<>> THEN inps
    ELSE LET id == lookup(inps, installation_id, Head(batch))
         IN  IF id \in DOMAIN inps
             THEN apply_batch([inps EXCEPT ![id] = set_raw_value(@, Head(batch)[4])],
                              installation_id, Tail(batch))
             ELSE apply_batch(inps, installation_id, after_unknown(Tail(batch)))

\* The LOGGER.warning calls of that loop: the tuples that matched no input.
unknown_tuples(inps, installation_id, batch) ==
    {n \in 1..Len(batch) : lookup(inps, installation_id, batch[n]) \notin DOMAIN inps}

projected_observed(inps) == {id \in DOMAIN inps : inps[id].value # None}

\* The inputs the returned mapping has an entry for.
projected(inps) == DOMAIN inps

\* {x.key: x.normalized_value for ... in self.inputs ...}
projection(inps) ==
    IF \E id \in projected(inps) : IsRaise(normalized_value(inps[id]))
    THEN Err((CHOOSE v \in {normalized_value(inps[id]) : id \in projected(inps)} :
                  IsRaise(v))[1])
    ELSE Ok([k \in {inps[id].key : id \in projected(inps)} |->
                normalized_value(inps[CHOOSE id \in projected(inps) : inps[id].key = k])])

(***************************************************************************)
(* State.                                                                  *)
(***************************************************************************)
VARIABLES
    phase,          \* "created", "loggedin" (create_session done), "ready" (_async_setup
                    \* done), "failed" (_async_setup raised: the entry is not set up)
    vendor,         \* the page configurations the last successful discovery fetched
    installations,  \* session.installations
    groups,         \* session.groups
    devices,        \* session.devices
    inputs,         \* session.inputs: identity <<i, d, t, code>> -> NormalizedInput
    inputs_map,     \* session.inputs_map: key -> identity
    data,           \* coordinator.data, the last published snapshot
    write_lock,     \* coordinator._write_lock: 0 or the writer holding it
    wr,             \* the async_set_value calls
    rf,             \* the refresh cycle (_async_update_data -> do_update)
    warnings,       \* unknown-input warnings logged while applying the last response
    setup,          \* the last call of discover: the responses it fetched, the exception it raised,
                    \* the parity of the number of calls
    resource,       \* a FebosResourceData of the legacy client (febos.py)
    listener_calls  \* listener invocations made by the last value assignment

vars == <<phase, vendor, installations, groups, devices, inputs, inputs_map, data,
          write_lock, wr, rf, warnings, setup, resource, listener_calls>>

legacy_vars == <<resource, listener_calls>>

session_vars == <<installations, groups, devices, inputs, inputs_map>>

Writers == 1..NumWriters

NoData == <<>>

\* body: the RealtimeDataModel the write posted; posts: how many it posted.
IdleWriter == [pc |-> "idle", key |-> "", req |-> None, raw |-> None,
               body |-> <<>>, posts |-> 0,
               resp |-> "", result |-> "", snapshot |-> NoData]

\* racing: the writers that submitted after this refresh had fetched their
\* installation; overtaken: the inputs such a write has since published.
IdleRefresh == [pc |-> "idle", attempt |-> 0, idx |-> 0, logins |-> 0,
                unauthorized |-> FALSE, batch |-> <<>>, exc |-> "",
                outcome |-> "", snapshot |-> NoData, pre |-> <<>>,
                racing |-> {}, overtaken |-> {}]

\* Before discover was ever called; calls: the parity of the number of calls.
NoSetup == [responses |-> <<>>, err |-> "not called", calls |-> 0]

\* No legacy resource in use.
NoResource == [value_type |-> "", value |-> None, listener |-> FALSE, err |-> ""]

values_of(inps) == [id \in DOMAIN inps |-> inps[id].value]

Init ==
    /\ phase = "created"
    /\ vendor = <<>>
    /\ installations = <<>>
    /\ groups = <<>>
    /\ devices = <<>>
    /\ inputs = <<>>
    /\ inputs_map = <<>>
    /\ data = NoData
    /\ write_lock = 0
    /\ wr = [w \in Writers |-> IdleWriter]
    /\ rf = IdleRefresh
    /\ warnings = 0
    /\ setup = NoSetup
    /\ resource = NoResource
    /\ listener_calls = 0

Quiet == rf.pc = "idle" /\ \A w \in Writers : wr[w].pc = "idle"

(***************************************************************************)
(* create_session -> FebosSession.login; resps: what the vendor may answer *)
(***************************************************************************)
Login(resps) ==
    /\ phase = "created"
    /\ \E r \in resps :
        /\ installations' = r
        /\ phase' = "loggedin"
    /\ UNCHANGED <<vendor, setup, legacy_vars, groups, devices, inputs, inputs_map, data, write_lock, wr,
                   rf, warnings>>

\* One page configuration for each installation of S, each out of cfgs[i].
RECURSIVE response_choices(_, _)
response_choices(S, cfgs) ==
    IF S = {} THEN {<<>>}
    ELSE LET i == CHOOSE x \in S : TRUE
         IN  {(i :> c) @@ r : c \in cfgs[i], r \in response_choices(S \ {i}, cfgs)}

(***************************************************************************)
(* FebosSession.discover as a call on the session; cfgs[i]: the page       *)
(* configurations the vendor may answer for installation i.                *)
(***************************************************************************)
cleared_on_failure(current) == EmptyTables

\* discover builds groups, devices and inputs as locals and assigns
\* self.* only after its loops: a raise leaves what the session held.
kept_on_failure(current) == current

patched_by(new, current) ==
    [groups |-> new.groups @@ current.groups,
     devices |-> new.devices @@ current.devices,
     inputs |-> new.inputs @@ current.inputs]

\* The assignments that end a successful discover: the session's tables
\* become the local tables.
replaced_by(new, current) == new

\* One call of discover; failed: the phase a raise leaves the entry in.
DiscoverCall(cfgs, failed) ==
    \E responses \in response_choices(Range(installations), cfgs) :
        LET r == discover(installations, responses, EmptyTables)
            current == [groups |-> groups, devices |-> devices, inputs |-> inputs]
            t == IF r.err # "" THEN kept_on_failure(current)
                 ELSE replaced_by(r.val, current)
        IN  /\ setup' = [responses |-> responses, err |-> r.err,
                         calls |-> 1 - setup.calls]
            /\ groups' = t.groups
            /\ devices' = t.devices
            /\ inputs' = t.inputs
            /\ inputs_map' = IF r.err # "" THEN inputs_map
                             ELSE build_inputs_map(t.inputs)
            /\ vendor' = IF r.err # "" THEN vendor ELSE responses
            /\ phase' = IF r.err # "" THEN failed ELSE "ready"

\* _async_setup -> discover: the coordinator runs it once, before its first
\* refresh; a raise fails the setup of the entry.
Discover(cfgs) ==
    /\ phase = "loggedin"
    /\ Quiet
    /\ DiscoverCall(cfgs, "failed")
    /\ UNCHANGED <<installations, data, write_lock, wr, rf, warnings, legacy_vars>>

\* discover called again on a session that holds tables.
Rediscover(cfgs) ==
    /\ phase = "ready"
    /\ Quiet
    /\ DiscoverCall(cfgs, "ready")
    /\ UNCHANGED <<installations, data, write_lock, wr, rf, warnings, legacy_vars>>

(***************************************************************************)
(* The refresh cycle: _async_update_data runs do_update in an executor     *)
(* thread; do_update calls session.update, and on HTTP 401 session.login   *)
(* and session.update again.                                               *)
(***************************************************************************)
RefreshStart ==
    /\ phase = "ready"
    /\ rf.pc = "idle"
    /\ rf' = [IdleRefresh EXCEPT !.pc = "update", !.attempt = 1, !.idx = 1,
                                 !.pre = values_of(inputs)]
    /\ warnings' = 0
    /\ UNCHANGED <<phase, vendor, setup, legacy_vars, session_vars, data, write_lock, wr>>

retry_on_every_401(attempt, exc) == exc = "HTTP401"

\* do_update's choice on an exception raised by session.update: only the
\* first attempt is inside the try block, and only 401 leads to the re-login.
retry_on(attempt, exc) == attempt = 1 /\ exc = "HTTP401"

\* do_update's handling of an exception raised by session.update.  In the
\* first attempt anything but 401 becomes UpdateFailed.  The retried update
\* runs inside the except clause: what it raises leaves do_update as it is.
raised(r, exc) ==
    IF retry_on(r.attempt, exc)
    THEN [r EXCEPT !.pc = "login", !.unauthorized = TRUE, !.exc = exc]
    ELSE [r EXCEPT !.pc = "done", !.exc = exc,
                   !.outcome = IF r.attempt = 1 THEN "UpdateFailed" ELSE exc]

\* RealtimeDataEndpoint(...).get for the next installation; batches: the
\* responses the vendor may give.
UpdateFetch(batches) ==
    /\ rf.pc = "update"
    /\ rf.idx <= Len(installations)
    /\ IF installations[rf.idx] \notin DOMAIN groups
       THEN rf' = raised(rf, "KeyError")
       ELSE \/ \E b \in batches :
                   rf' = [rf EXCEPT !.pc = "apply", !.batch = b,
                                    !.racing = {w \in @ : inputs_map[wr[w].key][1]
                                                              # installations[rf.idx]},
                                    !.overtaken = {id \in @ : id[1] # installations[rf.idx]}]
            \/ \E e \in FetchErrors : rf' = raised(rf, e)
    /\ UNCHANGED <<phase, vendor, setup, legacy_vars, session_vars, data, write_lock, wr, warnings>>

\* The loop over the response's entries.
UpdateApply ==
    /\ rf.pc = "apply"
    /\ inputs' = apply_batch(inputs, installations[rf.idx], rf.batch)
    /\ warnings' = Cardinality(unknown_tuples(inputs, installations[rf.idx], rf.batch))
    /\ rf' = [rf EXCEPT !.pc = "update", !.idx = @ + 1]
    /\ UNCHANGED <<phase, vendor, setup, legacy_vars, installations, groups, devices, inputs_map, data,
                   write_lock, wr>>

\* The return statement of session.update.
UpdateReturn ==
    /\ rf.pc = "update"
    /\ rf.idx > Len(installations)
    /\ LET p == projection(inputs)
       IN  rf' = IF p.err # "" THEN raised(rf, p.err)
                 ELSE [rf EXCEPT !.pc = "done", !.outcome = "ok", !.snapshot = p.val,
                                 !.batch = <<>>]
    /\ UNCHANGED <<phase, vendor, setup, legacy_vars, session_vars, data, write_lock, wr, warnings>>

\* self.session.login() in the 401 handler, then the retried update starts.
Relogin(resps) ==
    /\ rf.pc = "login"
    /\ \/ /\ \E r \in resps : installations' = r
          /\ rf' = [rf EXCEPT !.pc = "update", !.attempt = 2, !.idx = 1,
                              !.logins = @ + 1, !.batch = <<>>, !.exc = "",
                              !.pre = values_of(inputs),
                              !.racing = {}, !.overtaken = {}]
       \/ /\ rf' = [rf EXCEPT !.pc = "done", !.logins = @ + 1,
                              !.outcome = "LoginError"]
          /\ UNCHANGED installations
    /\ UNCHANGED <<phase, vendor, setup, legacy_vars, groups, devices, inputs, inputs_map, data,
                   write_lock, wr, warnings>>

\* Back on the event loop: the coordinator publishes a successful result.
RefreshFinish ==
    /\ rf.pc = "done"
    /\ data' = IF rf.outcome = "ok" THEN rf.snapshot ELSE data
    /\ rf' = IdleRefresh
    /\ UNCHANGED <<phase, vendor, setup, legacy_vars, session_vars, write_lock, wr, warnings>>

(***************************************************************************)
(* The write path: async_set_value takes the write lock, runs              *)
(* session.set_value in an executor thread and publishes its result.       *)
(***************************************************************************)
lock_ignored(lock) == TRUE

\* asyncio.Lock: whether the lock can be taken now.
lock_free(lock) == lock = 0

\* async with self._write_lock; keys, reqs: the arguments a caller may pass.
WriteAcquire(w, keys, reqs) ==
    /\ phase = "ready"
    /\ wr[w].pc = "idle"
    /\ lock_free(write_lock)
    /\ write_lock' = w
    /\ \E k \in keys, v \in reqs :
           wr' = [wr EXCEPT ![w] = [IdleWriter EXCEPT !.pc = "locked", !.key = k,
                                                      !.req = v]]
    /\ UNCHANGED <<phase, vendor, setup, legacy_vars, session_vars, data, rf, warnings>>

post_unknown(writer) ==
    [writer EXCEPT !.pc = "returned", !.result = "None", !.resp = "errCode0"]

\* if key not in self.inputs_map: a warning, return None; no request is made.
refuse_unknown(writer) == [writer EXCEPT !.pc = "returned", !.result = "None"]

\* Whether the refresh in progress has already fetched installation i.
fetched(r, i) ==
    /\ r.pc \in {"apply", "update", "done"}
    /\ \E n \in DOMAIN installations :
           /\ installations[n] = i
           /\ n < r.idx \/ (n = r.idx /\ r.pc = "apply")

\* RealtimeDataModel(data={input.code: Value(i=value)}, deviceId, thingId)
RealtimeDataModel(ni, raw) ==
    [data |-> (ni.input.code :> raw), deviceId |-> ni.input.deviceId,
     thingId |-> ni.input.thingId]

\* set_value up to realtime_data.post: the lookup, the conversion, the request.
WriteSubmit(w) ==
    /\ wr[w].pc = "locked"
    /\ IF wr[w].key \notin DOMAIN inputs_map
       THEN /\ wr' = [wr EXCEPT ![w] = refuse_unknown(@)]
            /\ UNCHANGED rf
       ELSE /\ \E resp \in WriteResponses :
                   LET ni == inputs[inputs_map[wr[w].key]]
                       raw == to_original_scale(ni, wr[w].req)
                   IN  wr' = [wr EXCEPT ![w].pc = "posted",
                                        ![w].raw = raw,
                                        ![w].body = RealtimeDataModel(ni, raw),
                                        ![w].posts = @ + 1,
                                        ![w].resp = resp]
            /\ rf' = IF fetched(rf, inputs_map[wr[w].key][1])
                     THEN [rf EXCEPT !.racing = @ \cup {w}] ELSE rf
    /\ UNCHANGED <<phase, vendor, setup, legacy_vars, session_vars, data, write_lock, warnings>>

accepted_unless_transport(resp) == resp # "HTTPStatusError"

\* Whether set_value goes on to commit after this answer of the POST:
\* HTTPStatusError and a non-zero errCode are refused.
accepted(resp) == resp = "errCode0"

commit_thing(inps, id, raw) ==
    [o \in DOMAIN inps |->
        IF <<o[1], o[2], o[3]>> = <<id[1], id[2], id[3]>>
        THEN set_raw_value(inps[o], raw) ELSE inps[o]]

\* input.value = value: the one assignment of a confirmed write.
commit_input(inps, id, raw) == [inps EXCEPT ![id] = set_raw_value(@, raw)]

\* set_value after the POST: refuse, or commit and project.  An exception
\* other than HTTPStatusError leaves set_value as it is.
WriteCommit(w) ==
    /\ wr[w].pc = "posted"
    /\ LET id == inputs_map[wr[w].key]
           committed == commit_input(inputs, id, wr[w].raw)
           p == projection(committed)
       IN  IF wr[w].resp = "ConnectError"
           THEN /\ wr' = [wr EXCEPT ![w].pc = "returned", ![w].result = "ConnectError"]
                /\ UNCHANGED <<inputs, rf>>
           ELSE IF ~accepted(wr[w].resp)
           THEN /\ wr' = [wr EXCEPT ![w].pc = "returned", ![w].result = "None"]
                /\ UNCHANGED <<inputs, rf>>
           ELSE /\ inputs' = committed
                /\ rf' = IF rf.pc = "idle" THEN rf
                         ELSE [rf EXCEPT !.pre = [@ EXCEPT ![id] = committed[id].value]]
                /\ wr' = [wr EXCEPT ![w].pc = "returned",
                                    ![w].result = IF p.err # "" THEN p.err ELSE "data",
                                    ![w].snapshot = IF p.err # "" THEN NoData ELSE p.val]
    /\ UNCHANGED <<phase, vendor, setup, legacy_vars, installations, groups, devices, inputs_map, data,
                   write_lock, warnings>>

published_always(result, snapshot) == TRUE

\* if data: set_value returned a mapping (not None) and it is not empty.
published(result, snapshot) == result = "data" /\ snapshot # NoData

\* Back on the event loop: if data: async_set_updated_data(data); the lock
\* is released on the way out, also when set_value raised.
WritePublish(w) ==
    /\ wr[w].pc = "returned"
    /\ data' = IF published(wr[w].result, wr[w].snapshot) THEN wr[w].snapshot ELSE data
    /\ write_lock' = IF write_lock = w THEN 0 ELSE write_lock
    /\ wr' = [wr EXCEPT ![w] = IdleWriter]
    /\ rf' = IF w \notin rf.racing THEN rf
             ELSE [rf EXCEPT !.racing = @ \ {w},
                             !.overtaken =
                                 IF published(wr[w].result, wr[w].snapshot)
                                 THEN @ \cup {inputs_map[wr[w].key]} ELSE @]
    /\ UNCHANGED <<phase, vendor, setup, legacy_vars, session_vars, warnings>>

(***************************************************************************)
(* Spec: the whole integration, refresh and writes running concurrently,   *)
(* on one installation.                                                    *)
(***************************************************************************)
Tuple(deviceId, thingId, code, v) == <<deviceId, thingId, code, <<"int", v>>>>

SmallLogins == {<<1>>}
SmallConfigs == [i \in {1, 2} |-> {CfgA, CfgOther, CfgFetchError}]
SmallBatches == {<<>>, <<Tuple(10, 20, "R16494", 1)>>, <<Tuple(10, 20, "R8648", 1)>>}
UnknownKey == "febos_1_10_20_R0000"
SmallKeys == {unique_key(1, 10, 20, "R16494", FEBOS_DOMAIN),
              unique_key(1, 10, 20, "R8648", FEBOS_DOMAIN), UnknownKey}
SmallReqs == {<<"bool", 1>>, <<"bool", 0>>, <<"num", 1000>>}

Next ==
    \/ Login(SmallLogins)
    \/ Discover(SmallConfigs)
    \/ RefreshStart
    \/ UpdateFetch(SmallBatches)
    \/ UpdateApply
    \/ UpdateReturn
    \/ Relogin(SmallLogins)
    \/ RefreshFinish
    \/ \E w \in Writers : WriteAcquire(w, SmallKeys, SmallReqs)
    \/ \E w \in Writers : WriteSubmit(w)
    \/ \E w \in Writers : WriteCommit(w)
    \/ \E w \in Writers : WritePublish(w)

Spec == Init /\ [][Next]_vars

(***************************************************************************)
(* SpecRefresh: the refresh cycle alone, on up to two installations, with  *)
(* a re-login that may change the installation list.                       *)
(***************************************************************************)
RefreshConfigs == [i \in {1, 2} |-> IF i = 1 THEN {CfgA, CfgOther, CfgFetchError}
                                    ELSE {CfgB, CfgFetchError}]
RefreshBatches == {<<>>, <<Tuple(10, 20, "R16494", 1)>>, <<Tuple(10, 20, "R8648", 1)>>,
                   <<Tuple(10, 21, "R9051", 1)>>, <<Tuple(10, 21, "R9051", 0)>>}

NextRefresh ==
    \/ Login(LoginResponses)
    \/ Discover(RefreshConfigs)
    \/ RefreshStart
    \/ UpdateFetch(RefreshBatches)
    \/ UpdateApply
    \/ UpdateReturn
    \/ Relogin(LoginResponses)
    \/ RefreshFinish

SpecRefresh == Init /\ [][NextRefresh]_vars

(***************************************************************************)
(* SpecUpdate: the refresh cycle on one installation, with every realtime  *)
(* response of up to MaxBatch tuples, known and unknown.                   *)
(***************************************************************************)
UpdateConfigs == [i \in {1, 2} |-> {CfgA}]
UpdateTuples == {Tuple(10, 20, "R16494", 1), Tuple(10, 20, "R16494", 0),
                 Tuple(10, 20, "R8648", 1), Tuple(10, 20, "R0000", 1)}
UpdateBatches == SeqsUpTo(UpdateTuples, MaxBatch)

NextUpdate ==
    \/ Login(SmallLogins)
    \/ Discover(UpdateConfigs)
    \/ RefreshStart
    \/ UpdateFetch(UpdateBatches)
    \/ UpdateApply
    \/ UpdateReturn
    \/ Relogin(SmallLogins)
    \/ RefreshFinish

SpecUpdate == Init /\ [][NextUpdate]_vars

(***************************************************************************)
(* SpecDiscover: login and discovery over every walk of up to MaxWalk      *)
(* input entries, with repeated, conflicting and unregistered inputs.      *)
(***************************************************************************)
WalkEntries == {InSet, InSetDup, InSw, InTemp, InOrphan}

\* A configuration whose two widgets' groups hold the entries of q:
\* the first entry in group G1, the rest in group G2.
WalkConfig(q) ==
    PageConfig({10}, <<Thing(20, 10, 1), Thing(21, 10, 1)>>, {},
               IF q = <<>> THEN <<>>
               ELSE <<Group("G1", <<Head(q)>>), Group("G2", Tail(q))>>)

DiscoverConfigs ==
    [i \in {1, 2} |-> IF i = 1
                      THEN {WalkConfig(q) : q \in SeqsUpTo(WalkEntries, MaxWalk)}
                           \cup {CfgOther, CfgNoDevice, CfgOrphan, CfgFetchError}
                      ELSE {CfgB, CfgFetchError}]

NextDiscover ==
    \/ Login(LoginResponses)
    \/ Discover(DiscoverConfigs)

SpecDiscover == Init /\ [][NextDiscover]_vars

(***************************************************************************)
(* SpecKeys: login and discovery over installations, devices, things and   *)
(* codes whose decimal digits and '_' characters overlap.                  *)
(***************************************************************************)
MaxKeyWalk == 2

KeyCodes == {"1", "1_1", "R_1", "R"}
KeyLogins == {<<1>>, <<1, 11>>, <<11, 1>>}
KeyEntries == {Input(d[1], d[2], c, "C_DATA", "INT", None) :
                   d \in {<<11, 1>>, <<1, 11>>}, c \in KeyCodes}
KeyConfigs ==
    [i \in {1, 11} |->
        IF i = 1
        THEN {PageConfig({1, 11}, <<Thing(1, 11, 1), Thing(11, 1, 1)>>, {},
                         <<Group("G1", q)>>) : q \in SeqsUpTo(KeyEntries, MaxKeyWalk)}
        ELSE {PageConfig({1}, <<Thing(1, 1, 1)>>, {},
                         <<Group("G1", <<Input(1, 1, "1", "C_DATA", "INT", None),
                                         Input(1, 1, "1_1", "C_DATA", "INT", None)>>)>>)}]

NextKeys ==
    \/ Login(KeyLogins)
    \/ Discover(KeyConfigs)

SpecKeys == Init /\ [][NextKeys]_vars

(***************************************************************************)
(* SpecKinds: discovery of one input of every category, input type, kind   *)
(* of code, thing model and vendor default, followed by refresh cycles.    *)
(***************************************************************************)
KindCategories == {"C_PARAMETER", "C_DATA", "C_OTHER"}
KindTypes == {"INT", "FLOAT", "BOOL", "STRING"}
\* A code in no table, a code forced to bool, two force-read-only codes.
KindCodes == {"R7000", "R8648", "R8681", "R16515"}
\* Thing 20 is of an ordinary model, thing 21 of the read-only model.
KindThings == <<Thing(20, 10, 1), Thing(21, 10, ForceReadOnlyModel)>>
KindInputs == {Input(10, t, c, cat, ty, d) :
                   t \in {20, 21}, c \in KindCodes, cat \in KindCategories,
                   ty \in KindTypes, d \in {None, <<"int", 3>>}}
KindConfigs == [i \in {1, 2} |->
                   {PageConfig({10}, KindThings, {}, <<Group("G1", <<e>>)>>) :
                        e \in KindInputs}]
KindBatches == {<<>>} \cup {<<Tuple(10, t, c, v)>> :
                               t \in {20, 21}, c \in KindCodes, v \in {0, 1}}

NextKinds ==
    \/ Login(SmallLogins)
    \/ Discover(KindConfigs)
    \/ RefreshStart
    \/ UpdateFetch(KindBatches)
    \/ UpdateApply
    \/ UpdateReturn
    \/ Relogin(SmallLogins)
    \/ RefreshFinish

SpecKinds == Init /\ [][NextKinds]_vars

(***************************************************************************)
(* SpecSetter: value assignments on one Normalized Input and on one        *)
(* FebosResourceData, of every value type, with and without a listener.    *)
(***************************************************************************)
SetterInputs == {Input(10, 20, "R7000", "C_DATA", ty, d) :
                     ty \in KindTypes, d \in {None, <<"int", 3>>}}
SetterResources == {[value_type |-> vt, value |-> None, listener |-> FALSE, err |-> ""] :
                        vt \in {"int", "float", "bool"}}
SetterValues == {None, <<"int", 5>>, <<"int", 7>>, <<"int", 0>>}

InitSetter ==
    /\ phase = "created"
    /\ vendor = <<>>
    /\ installations = <<>>
    /\ groups = <<>>
    /\ devices = <<>>
    /\ \E e \in SetterInputs :
           inputs = (<<1, e.deviceId, e.thingId, e.code>> :>
                        NormalizedInput(unique_key(1, e.deviceId, e.thingId, e.code,
                                                   FEBOS_DOMAIN),
                                        1, 1, DeviceInfo(1, Thing(20, 10, 1)), e))
    /\ inputs_map = <<>>
    /\ data = NoData
    /\ write_lock = 0
    /\ wr = [w \in Writers |-> IdleWriter]
    /\ rf = IdleRefresh
    /\ warnings = 0
    /\ setup = NoSetup
    /\ resource \in SetterResources
    /\ listener_calls = 0

\* A host object registers itself: x.listener = callback
\* (binary_sensor.py:59 and sensor.py:59 do so on the legacy resources).
RegisterListener ==
    /\ \E id \in DOMAIN inputs :
           /\ ~inputs[id].listener
           /\ inputs' = [inputs EXCEPT ![id].listener = TRUE]
    /\ UNCHANGED <<phase, vendor, setup, installations, groups, devices, inputs_map,
                   data, write_lock, wr, rf, warnings, legacy_vars>>

ResourceRegisterListener ==
    /\ ~resource.listener
    /\ resource' = [resource EXCEPT !.listener = TRUE]
    /\ UNCHANGED <<phase, vendor, setup, session_vars, data, write_lock, wr, rf,
                   warnings, listener_calls>>

\* input.value = v
SetValue(values) ==
    /\ \E id \in DOMAIN inputs, v \in values :
           /\ inputs' = [inputs EXCEPT ![id] = set_raw_value(@, v)]
           /\ listener_calls' = setter_listener_calls(inputs[id], v)
    /\ UNCHANGED <<phase, vendor, setup, installations, groups, devices, inputs_map,
                   data, write_lock, wr, rf, warnings, resource>>

\* FebosResourceData.set_value(v)
ResourceSetValue(values) ==
    /\ \E v \in values :
           /\ resource' = resource_set_value(resource, v)
           /\ listener_calls' = resource_listener_calls(resource, v)
    /\ UNCHANGED <<phase, vendor, setup, session_vars, data, write_lock, wr, rf,
                   warnings>>

NextSetter ==
    \/ RegisterListener
    \/ ResourceRegisterListener
    \/ SetValue(SetterValues)
    \/ ResourceSetValue(SetterValues)

SpecSetter == InitSetter /\ [][NextSetter]_vars

(***************************************************************************)
(* SpecScale: one writable numeric input of every code of the scaling      *)
(* table, and of a code outside it; values arrive, and a caller writes the *)
(* displayed value back.                                                   *)
(***************************************************************************)
ScaleCodes == ScaledCodes \cup {"R7000"}
ScaleConfigs ==
    [i \in {1, 2} |->
        {PageConfig({10}, <<Thing(20, 10, 1)>>, {},
                    <<Group("G1", <<Input(10, 20, c, "C_PARAMETER", ty, None)>>)>>) :
             c \in ScaleCodes, ty \in {"INT", "FLOAT"}}]

\* The raw values the vendor may report for a code: a 16-bit register for
\* the two's-complement codes, any integer otherwise.
raw_range(code) ==
    IF code \in CtwoCodes \cup CtwoThousandCodes
    THEN {0, 1, 32767, 32768, 65535}
    ELSE {-1, 0, 1, 5, 32767}

ScaleRaws == {<<"int", x>> : x \in UNION {raw_range(inputs[id].input.code) :
                                              id \in DOMAIN inputs}}

\* What the host displays now, the values a caller may write back.
Displayed == {normalized_value(inputs[id]) : id \in DOMAIN inputs} \ {None}

NextScale ==
    \/ Login(SmallLogins)
    \/ Discover(ScaleConfigs)
    \/ SetValue(ScaleRaws)
    \/ \E w \in Writers : WriteAcquire(w, DOMAIN inputs_map, Displayed)
    \/ \E w \in Writers : WriteSubmit(w)
    \/ \E w \in Writers : WriteCommit(w)
    \/ \E w \in Writers : WritePublish(w)

SpecScale == Init /\ [][NextScale]_vars

(***************************************************************************)
(* SpecRediscover: discover called again on a session that holds tables    *)
(* and refreshed values, with configurations that change between calls     *)
(* and calls that fail part-way.                                           *)
(***************************************************************************)
RediscoverConfigs ==
    [i \in {1, 2} |-> IF i = 1 THEN {CfgA, CfgB, CfgOrphan, CfgNoDevice, CfgFetchError}
                      ELSE {CfgB, CfgFetchError}]
RediscoverBatches == {<<Tuple(10, 20, "R16494", 1)>>, <<Tuple(10, 21, "R9051", 1)>>}

NextRediscover ==
    \/ Login(LoginResponses)
    \/ Discover(RediscoverConfigs)
    \/ Rediscover(RediscoverConfigs)
    \/ RefreshStart
    \/ UpdateFetch(RediscoverBatches)
    \/ UpdateApply
    \/ UpdateReturn
    \/ Relogin(LoginResponses)
    \/ RefreshFinish

SpecRediscover == Init /\ [][NextRediscover]_vars

(***************************************************************************)
(* SpecPolarity: one boolean sensor of each device class, refreshed with   *)
(* both raw values.                                                        *)
(***************************************************************************)
PolarityCodes == {"R8683", "R9089", "R16384", "R8672", "R8673"}

PolarityConfigs ==
    [i \in {1, 2} |->
        {PageConfig({10}, <<Thing(20, 10, 1)>>, {},
                    <<Group("G1", <<Input(10, 20, a, "C_DATA", "BOOL", None),
                                    Input(10, 20, b, "C_DATA", "BOOL", None)>>)>>) :
            a \in PolarityCodes, b \in PolarityCodes}]

PolarityBatches == {<<Tuple(10, 20, c, v)>> : c \in PolarityCodes, v \in {0, 1}}

NextPolarity ==
    \/ Login(SmallLogins)
    \/ Discover(PolarityConfigs)
    \/ RefreshStart
    \/ UpdateFetch(PolarityBatches)
    \/ UpdateApply
    \/ UpdateReturn
    \/ Relogin(SmallLogins)
    \/ RefreshFinish

SpecPolarity == Init /\ [][NextPolarity]_vars

(***************************************************************************)
(* SpecUnits: discovery of one input of every combination of a code with   *)
(* and without a unit override, a vendor unit string, a category, an input *)
(* type and a thing model.                                                 *)
(***************************************************************************)
UnitCodes == {"R16494", "R8002", "R16493", "R7000"}
VendorUnits == {None, <<"str", "">>, <<"str", "HH:mm">>, <<"str", "watt/h">>,
                <<"str", "e/kw">>, <<"str", "kW">>, <<"str", "bar">>}

UnitConfigs ==
    [i \in {1, 2} |->
        {PageConfig({10}, <<Thing(20, 10, model)>>, {},
                    <<Group("G1", <<WithUnit(Input(10, 20, c, cat, ty, None), u)>>)>>) :
            c \in UnitCodes, u \in VendorUnits, ty \in {"INT", "FLOAT"},
            cat \in {"C_DATA", "C_PARAMETER"}, model \in {1, ForceReadOnlyModel}}]

NextUnits ==
    \/ Login(SmallLogins)
    \/ Discover(UnitConfigs)

SpecUnits == Init /\ [][NextUnits]_vars

(***************************************************************************)
(* Properties.                                                             *)
(***************************************************************************)
Refusals == {"HTTPStatusError", "errCode5"}

\* Python's == between a requested and a displayed value: True == 1 == 1.0.
py_eq(a, b) ==
    LET m(x) == IF x[1] = "bool" THEN x[2] * 1000 ELSE x[2]
    IN  IF a = None \/ b = None THEN a = b ELSE m(a) = m(b)

KeysOfInputs == {inputs[id].key : id \in DOMAIN inputs}

\* C1: no step of a write whose remote request met HTTPStatusError or a
\* non-zero errCode changes the stored raw value of any input, and the call
\* returns None.
C1_RefusedWriteLeavesState ==
    [][\A w \in Writers :
          (wr'[w] # wr[w] /\ (wr[w].resp \in Refusals \/ wr'[w].resp \in Refusals))
          => /\ values_of(inputs') = values_of(inputs)
             /\ (wr'[w].pc = "returned" => wr'[w].result = "None")]_vars

\* A write to a known key was refused with errCode 5 although the value it
\* asked for differs from the stored one.
C1_Witness ==
    \E w \in Writers :
        /\ wr[w].pc = "returned"
        /\ wr[w].resp = "errCode5"
        /\ wr[w].result = "None"
        /\ inputs[inputs_map[wr[w].key]].value
               # convert(value_type(inputs[inputs_map[wr[w].key]]), wr[w].raw)

\* C2: the step of set_value that handles errCode 0 completes without
\* raising, stores the raw-scale conversion of the requested value in the
\* target input, and returns a mapping with one entry per discovered input
\* in which the target key maps to the requested value.
C2_ConfirmedWriteCommits ==
    [][\A w \in Writers :
          (wr[w].pc = "posted" /\ wr[w].resp = "errCode0" /\ wr'[w].pc = "returned")
          => /\ wr'[w].result = "data"
             /\ inputs'[inputs_map[wr[w].key]].value
                    = convert(value_type(inputs[inputs_map[wr[w].key]]), wr[w].raw)
             /\ DOMAIN wr'[w].snapshot = KeysOfInputs
             /\ py_eq(wr'[w].snapshot[wr[w].key], wr[w].req)]_vars

\* The inputs a realtime response assigns a value to.
assigned(installation_id, batch) ==
    {<<installation_id, batch[n][1], batch[n][2], batch[n][3]>> : n \in 1..Len(batch)}
        \cap DOMAIN inputs

\* C3: while a write is between its remote request and its commit, the
\* refresh applies no value to the input the write targets.
C3_NoRefreshInsideWrite ==
    [][\A w \in Writers :
          (wr[w].pc = "posted" /\ rf.pc = "apply" /\ rf'.pc # "apply")
          => inputs_map[wr[w].key] \notin assigned(installations[rf.idx], rf.batch)]_vars

\* C4: at most one async_set_value call is inside the section guarded by
\* the write lock, and it is the one holding the lock.
C4_WritesSerialized ==
    /\ Cardinality({w \in Writers : wr[w].pc # "idle"}) <= 1
    /\ \A w \in Writers : wr[w].pc # "idle" => write_lock = w

\* A write is waiting for the vendor's answer, holding the lock.
C4_Witness ==
    \E w \in Writers : wr[w].pc = "posted" /\ write_lock = w

\* C5: a refresh cycle logs in again at most once and runs session.update
\* at most twice; the re-login happens exactly when the first update met
\* 401, and when it succeeds exactly one retried update follows; a retried
\* update that raises nothing makes the cycle succeed.
C5_OneReloginOneRetry ==
    /\ rf.logins <= 1
    /\ rf.attempt <= 2
    /\ rf.logins = 1 => rf.unauthorized
    /\ rf.attempt = 2 => rf.logins = 1
    /\ (rf.pc = "done" /\ rf.unauthorized)
           => (rf.logins = 1 /\ (rf.outcome # "LoginError" => rf.attempt = 2))
    /\ (rf.pc = "done" /\ rf.attempt = 2 /\ rf.exc = "") => rf.outcome = "ok"

\* A cycle met 401, logged in once, retried once and succeeded.
C5_Witness ==
    /\ rf.pc = "done"
    /\ rf.unauthorized
    /\ rf.logins = 1
    /\ rf.attempt = 2
    /\ rf.outcome = "ok"

\* C6: a cycle that met 401 and then fails ends with UpdateFailed.
C6_SecondFailureIsUpdateFailed ==
    (rf.pc = "done" /\ rf.unauthorized /\ rf.outcome # "ok")
        => rf.outcome = "UpdateFailed"

\* C7: the mapping a successful update or set_value returns has exactly the
\* keys of all discovered inputs, and the key set changes only when a
\* discovery replaces the table.
C7_SnapshotComplete ==
    /\ []((rf.pc = "done" /\ rf.outcome = "ok") => DOMAIN rf.snapshot = KeysOfInputs)
    /\ [](\A w \in Writers :
              wr[w].result = "data" => DOMAIN wr[w].snapshot = KeysOfInputs)
    /\ [][vendor' = vendor => KeysOfInputs' = KeysOfInputs]_vars

\* A successful refresh returned an entry for an input it has no value for,
\* next to an input it has a value for.
C7_Witness ==
    /\ rf.pc = "done"
    /\ rf.outcome = "ok"
    /\ \E k1, k2 \in DOMAIN rf.snapshot :
           rf.snapshot[k1] = None /\ rf.snapshot[k2] # None

\* The tuples of a response that name the input id, by position.
hits(installation_id, batch, id) ==
    {n \in 1..Len(batch) :
        <<installation_id, batch[n][1], batch[n][2], batch[n][3]>> = id}

SetMax(S) == CHOOSE n \in S : \A m \in S : m <= n

\* C8: applying a realtime response never raises; each tuple that matches
\* no input is logged as a warning and changes nothing; every input named by
\* some tuple of the response holds the converted value of the last such
\* tuple, wherever the unknown tuples stand in the response, and every
\* other input keeps its value.
C8_UnknownTupleIgnored ==
    [][(rf.pc = "apply" /\ rf'.pc # "apply")
       => LET i == installations[rf.idx]
          IN  /\ rf'.pc = "update"
              /\ rf'.outcome = ""
              /\ warnings' = Cardinality({n \in 1..Len(rf.batch) :
                     <<i, rf.batch[n][1], rf.batch[n][2], rf.batch[n][3]>>
                         \notin DOMAIN inputs})
              /\ DOMAIN inputs' = DOMAIN inputs
              /\ \A id \in DOMAIN inputs :
                     inputs'[id].value =
                         IF hits(i, rf.batch, id) = {} THEN inputs[id].value
                         ELSE convert(value_type(inputs[id]),
                                      rf.batch[SetMax(hits(i, rf.batch, id))][4])]_vars

\* A response with an unknown tuple between two tuples of different known
\* inputs has been applied: one warning, both values stored.
C8_Witness ==
    /\ rf.pc = "update"
    /\ rf.idx = 2
    /\ Len(rf.batch) = 3
    /\ warnings = 1
    /\ <<1, rf.batch[2][1], rf.batch[2][2], rf.batch[2][3]>> \notin DOMAIN inputs
    /\ LET a == <<1, rf.batch[1][1], rf.batch[1][2], rf.batch[1][3]>>
           b == <<1, rf.batch[3][1], rf.batch[3][2], rf.batch[3][3]>>
       IN  /\ a \in DOMAIN inputs
           /\ b \in DOMAIN inputs
           /\ a # b
           /\ inputs[a].value = convert(value_type(inputs[a]), rf.batch[1][4])
           /\ inputs[b].value = convert(value_type(inputs[b]), rf.batch[3][4])
           /\ rf.pre[a] = None
           /\ rf.pre[b] = None

\* C9: when session.update has failed because a realtime fetch raised, every
\* input holds the raw value it held when that update started.
C9_FailedRefreshNotApplied ==
    (rf.pc \in {"login", "done"} /\ rf.exc \in FetchErrors)
        => values_of(inputs) = rf.pre

\* The input entries of a page configuration, in walk order.
RECURSIVE walk_entries(_)
walk_entries(walk) ==
    IF walk = <<>> THEN <<>> ELSE Head(walk).inputList \o walk_entries(Tail(walk))

identity(installation_id, e) == <<installation_id, e.deviceId, e.thingId, e.code>>

\* C10: after a discovery the table holds one Normalized Input for each
\* (installation, device, thing, code) of the configuration and no other,
\* each built from the first entry with that identity in walk order, and
\* inputs_map has one key per identity.
C10_DiscoveryDeduplicates ==
    phase = "ready" =>
        /\ DOMAIN inputs =
               UNION {{identity(i, e) : e \in Range(walk_entries(vendor[i].walk))} :
                          i \in DOMAIN vendor}
        /\ \A id \in DOMAIN inputs :
               LET q == walk_entries(vendor[id[1]].walk)
                   first == CHOOSE n \in 1..Len(q) :
                                /\ identity(id[1], q[n]) = id
                                /\ \A m \in 1..(n - 1) : identity(id[1], q[m]) # id
               IN  inputs[id].input = q[first]
        /\ Cardinality(DOMAIN inputs_map) = Cardinality(DOMAIN inputs)
        /\ \A k \in DOMAIN inputs_map : inputs[inputs_map[k]].key = k

\* A configuration listing the same input in two widgets, with different
\* definitions, was discovered: the table holds the first definition.
C10_Witness ==
    /\ phase = "ready"
    /\ \E n, m \in 1..Len(walk_entries(vendor[1].walk)) :
           LET q == walk_entries(vendor[1].walk)
           IN  /\ n < m
               /\ identity(1, q[n]) = identity(1, q[m])
               /\ q[n] # q[m]
               /\ \A j \in 1..(n - 1) : identity(1, q[j]) # identity(1, q[n])
               /\ inputs[identity(1, q[n])].input = q[n]

\* The input entries of a page configuration whose (deviceId, thingId) is
\* no thing of that configuration.
unregistered(response) ==
    {e \in Range(walk_entries(response.walk)) :
        ~\E t \in Range(response.thingMap) : t.id = e.thingId /\ t.deviceId = e.deviceId}

\* The things of a page configuration whose device is not in its device map.
deviceless(response) == {t \in Range(response.thingMap) : t.deviceId \notin response.deviceMap}

\* Whether discover got as far as the page configuration of installation i:
\* every installation before it was fetched and is consistent.
reached(i) ==
    \E n \in 1..Len(installations) :
        /\ installations[n] = i
        /\ \A m \in 1..(n - 1) :
               LET c == setup.responses[installations[m]]
               IN  c.ok /\ unregistered(c) = {} /\ deviceless(c) = {}

\* C11: a call of discover whose page configuration holds an input entry
\* with no registered (device, thing) does not succeed: when the walk
\* reaches that entry discover raises ValueError, and the session's tables
\* are not replaced by that call (no input created, none dropped).
C11_UnregisteredOwnerFailsDiscovery ==
    \A i \in DOMAIN setup.responses :
        LET c == setup.responses[i]
        IN  (c.ok /\ unregistered(c) # {})
            => /\ setup.err # ""
               /\ vendor # setup.responses
               /\ (reached(i) /\ deviceless(c) = {}) => setup.err = "ValueError"

\* discover raised ValueError on a walk whose first entry is a registered
\* input and a later one is not.
C11_Witness ==
    /\ setup.err = "ValueError"
    /\ \E i \in DOMAIN setup.responses :
           LET q == walk_entries(setup.responses[i].walk)
           IN  /\ Len(q) >= 2
               /\ q[1] \notin unregistered(setup.responses[i])
               /\ q[Len(q)] \in unregistered(setup.responses[i])

\* C12: a call of discover whose page configuration holds a thing with a
\* device id the device map lacks does not succeed: the thing loop raises
\* KeyError when it reaches that installation, and the call replaces none of
\* the session's tables.
C12_ThingWithoutDeviceFailsDiscovery ==
    \A i \in DOMAIN setup.responses :
        LET c == setup.responses[i]
        IN  (c.ok /\ deviceless(c) # {})
            => /\ setup.err # ""
               /\ vendor # setup.responses
               /\ reached(i) => setup.err = "KeyError"

\* discover raised KeyError on a configuration with a registered thing and
\* a thing of an unknown device.
C12_Witness ==
    /\ setup.err = "KeyError"
    /\ \E i \in DOMAIN setup.responses :
           LET c == setup.responses[i]
           IN  /\ deviceless(c) # {}
               /\ Range(c.thingMap) \ deviceless(c) # {}

\* C13: two discovered inputs with different (installation, device, thing,
\* code) have different keys, each key is the one unique_key computes from
\* the input's own identity, and inputs_map has one entry per input; the
\* device identifiers of different (installation, device, thing) differ too.
C13_KeysNeverCollide ==
    /\ \A a, b \in DOMAIN inputs : a # b => inputs[a].key # inputs[b].key
    /\ \A a \in DOMAIN inputs :
           inputs[a].key = unique_key(a[1], a[2], a[3], a[4], FEBOS_DOMAIN)
    /\ Cardinality(DOMAIN inputs_map) = Cardinality(DOMAIN inputs)
    /\ \A k \in DOMAIN inputs_map : inputs[inputs_map[k]].key = k
    /\ \A a, b \in DOMAIN devices :
           a # b => devices[a].identifiers # devices[b].identifiers

\* Inputs were discovered whose identities differ only in where the digits
\* and the '_' fall: (1, 11, 1, c), (1, 1, 11, c) and (11, 1, 1, c'), with a
\* code that contains the separator.
C13_Witness ==
    /\ phase = "ready"
    /\ \E a, b, c \in DOMAIN inputs :
           /\ a[1] = 1 /\ a[2] = 11 /\ a[3] = 1
           /\ b[1] = 1 /\ b[2] = 1 /\ b[3] = 11
           /\ c[1] = 11 /\ c[2] = 1 /\ c[3] = 1
           /\ a[4] = "1_1"
           /\ b[4] = "1"

\* C14: the entity kind of every discovered input follows the decision
\* table: C_PARAMETER and not force-read-only is a switch for bool and a
\* number for int/float; C_DATA or force-read-only is a binary sensor for
\* bool and a sensor otherwise; another category that is not
\* force-read-only is the unknown-category error; and the kind is writable
\* (switch or number) exactly when the category is C_PARAMETER and the
\* input is not force-read-only.
C14_EntityKindTable ==
    \A id \in DOMAIN inputs :
        LET ni == inputs[id]
            cat == ni.input.category
            vt == value_type(ni)
            fro == ni.thing_model_id = 8 \/ ni.input.code \in {"R8681", "R8682", "R16515"}
            et == entity_type(ni)
        IN  /\ (cat = "C_PARAMETER" /\ ~fro /\ vt = "bool") => et = "switch"
            /\ (cat = "C_PARAMETER" /\ ~fro /\ vt \in {"int", "float"}) => et = "number"
            /\ ((cat = "C_DATA" \/ fro) /\ vt = "bool") => et = "binary_sensor"
            /\ ((cat = "C_DATA" \/ fro) /\ vt # "bool") => et = "sensor"
            /\ (cat \notin {"C_PARAMETER", "C_DATA"} /\ ~fro) => et = "ValueError"
            /\ (et \in {"switch", "number"}) <=> (cat = "C_PARAMETER" /\ ~fro)

\* C15: an assignment to a Normalized Input or to a legacy resource with a
\* registered listener invokes the listener once when the converted value
\* differs from the stored one and not at all when it is equal, and an
\* assignment of None is accepted and stores None.
C15_SignalOnDistinctTransition ==
    [][/\ \A id \in DOMAIN inputs :
              (inputs[id].listener /\ inputs'[id].value # inputs[id].value)
                  => listener_calls' = 1
       /\ (resource.listener /\ resource'.value # resource.value)
              => listener_calls' = 1
       /\ (/\ values_of(inputs') = values_of(inputs)
           /\ resource'.value = resource.value
           /\ resource'.listener = resource.listener
           /\ \A id \in DOMAIN inputs : inputs'[id].listener = inputs[id].listener)
              => listener_calls' = 0
       /\ resource'.err = ""]_vars

C17_NeverObservedIsNull ==
    [][(phase = "loggedin" /\ phase' = "ready")
       => \A id \in DOMAIN inputs' :
              /\ inputs'[id].value = None
              /\ ~IsRaise(normalized_value(inputs'[id]))
                     => normalized_value(inputs'[id]) = None]_vars

\* C17 amended: an input for which nothing was received or written since
\* discovery holds None and projects to None, unless its input type is INT
\* and the vendor supplies a default integer: then it holds that default
\* and projects to the default's normalized value.
C17_NeverObservedIsNullOrDefault ==
    [][(phase = "loggedin" /\ phase' = "ready")
       => \A id \in DOMAIN inputs' :
              LET ni == inputs'[id]
                  seeded == ni.input.inputType = "INT" /\ ni.input.defaultIntValue # None
              IN  /\ seeded => ni.value = <<"int", ni.input.defaultIntValue[2]>>
                  /\ ~seeded => ni.value = None
                  /\ ~IsRaise(normalized_value(ni))
                         => (normalized_value(ni) = None <=> ~seeded)]_vars

\* Before any refresh or write, a FLOAT input with a vendor default holds
\* None.
C17_Witness ==
    /\ phase = "ready"
    /\ rf.pc = "idle"
    /\ data = NoData
    /\ \E id \in DOMAIN inputs :
           /\ inputs[id].input.inputType = "FLOAT"
           /\ inputs[id].input.defaultIntValue # None
           /\ inputs[id].value = None
           /\ normalized_value(inputs[id]) = None

\* C18: set_value with a key that is not in inputs_map returns None without
\* making a remote request and without changing any input's value, and the
\* coordinator then publishes nothing.
C18_UnknownKeyRefused ==
    [][\A w \in Writers :
          /\ (wr[w].pc = "locked" /\ wr[w].key \notin DOMAIN inputs_map
                  /\ wr'[w] # wr[w])
                 => /\ wr'[w].pc = "returned"
                    /\ wr'[w].result = "None"
                    /\ wr'[w].resp = ""
                    /\ values_of(inputs') = values_of(inputs)
                    /\ data' = data
          /\ (wr[w].pc = "returned" /\ wr[w].key \notin DOMAIN inputs_map
                  /\ wr'[w] # wr[w])
                 => /\ data' = data
                    /\ values_of(inputs') = values_of(inputs)]_vars

\* A write to an unknown key has returned None while a snapshot is
\* published.
C18_Witness ==
    \E w \in Writers :
        /\ wr[w].pc = "returned"
        /\ wr[w].key = UnknownKey
        /\ wr[w].key \notin DOMAIN inputs_map
        /\ wr[w].result = "None"
        /\ wr[w].resp = ""
        /\ data # NoData

\* C19: when set_value refuses (unknown key, HTTPStatusError or non-zero
\* errCode) it returns None, not an exception, and the step that ends
\* async_set_value leaves coordinator.data as it was; coordinator.data
\* changes only when a successful refresh or a successful write publishes.
C19_RefusedWriteKeepsSnapshot ==
    [][/\ \A w \in Writers :
              (/\ wr[w].pc = "returned"
               /\ wr'[w].pc = "idle"
               /\ (wr[w].key \notin DOMAIN inputs_map \/ wr[w].resp \in Refusals))
              => /\ wr[w].result = "None"
                 /\ data' = data
       /\ data' # data
              => \/ rf.pc = "done" /\ rf.outcome = "ok" /\ rf'.pc = "idle"
                 \/ \E w \in Writers :
                        /\ wr[w].pc = "returned"
                        /\ wr[w].result = "data"
                        /\ wr'[w].pc = "idle"]_vars

\* A write refused for a transport error is about to end while a snapshot
\* with a value is published.
C19_Witness ==
    \E w \in Writers :
        /\ wr[w].pc = "returned"
        /\ wr[w].resp = "HTTPStatusError"
        /\ wr[w].result = "None"
        /\ data # NoData
        /\ \E k \in DOMAIN data : data[k] # None

\* C20: after a discovery that succeeded every input has an entity kind,
\* every boolean sensor has a device class, and the projection a refresh
\* returns is never an exception raised by an input's classification.
C20_InconsistencyFailsDiscovery ==
    /\ phase = "ready"
           => \A id \in DOMAIN inputs :
                  /\ entity_type(inputs[id]) \notin {"KeyError", "ValueError"}
                  /\ entity_type(inputs[id]) = "binary_sensor"
                         => binary_sensor_device_class(inputs[id]) # "KeyError"
    /\ (rf.pc = "done" /\ rf.idx > Len(installations)) => rf.exc = ""

(***************************************************************************)
(* C21: a call of discover that raises, at whatever point and in whatever  *)
(* installation, leaves groups, devices, inputs and inputs_map exactly as  *)
(* they were before the call.                                              *)
(***************************************************************************)
discover_raised == setup'.calls # setup.calls /\ setup'.err # ""

C21_FailedDiscoveryCommitsNothing ==
    [][discover_raised => UNCHANGED <<groups, devices, inputs, inputs_map>>]_vars

\* A second call raised on installation 2, after installation 1 had been
\* walked, and the session still holds the tables and a refreshed value.
C21_Witness ==
    /\ phase = "ready"
    /\ setup.err # ""
    /\ DOMAIN setup.responses = {1, 2}
    /\ setup.responses[1].ok /\ ~setup.responses[2].ok
    /\ vendor # setup.responses
    /\ \E id \in DOMAIN inputs : inputs[id].value # None

(***************************************************************************)
(* C22: after a call of discover that succeeds, the tables hold exactly    *)
(* what the page configurations of that call yield: the groups of each     *)
(* installation, the things, the inputs of the walk, each input freshly    *)
(* created with its initial value, and one inputs_map key for each input.  *)
(***************************************************************************)
discover_succeeded == setup'.calls # setup.calls /\ setup'.err = ""

initial_value(e) ==
    IF e.inputType = "INT" /\ e.defaultIntValue # None
    THEN <<"int", e.defaultIntValue>> ELSE None

C22_RediscoveryReplacesTables ==
    [][discover_succeeded =>
        LET c == setup'.responses
            insts == Range(installations)
        IN  /\ DOMAIN groups' = insts
            /\ \A i \in insts :
                   groups'[i] = c[i].pageGroups \cup
                       {g.inputGroupGetCode : g \in Range(c[i].walk)}
            /\ DOMAIN devices' =
                   UNION {{<<i, t.deviceId, t.id>> : t \in Range(c[i].thingMap)} :
                          i \in insts}
            /\ DOMAIN inputs' =
                   UNION {{<<i, e.deviceId, e.thingId, e.code>> :
                              e \in UNION {Range(g.inputList) : g \in Range(c[i].walk)}} :
                          i \in insts}
            /\ \A id \in DOMAIN inputs' :
                   inputs'[id].value = initial_value(inputs'[id].input)
            /\ DOMAIN inputs_map' = {inputs'[id].key : id \in DOMAIN inputs'}
            /\ \A k \in DOMAIN inputs_map' :
                   inputs_map'[k] \in DOMAIN inputs' /\ inputs'[inputs_map'[k]].key = k
    ]_vars

\* A second call succeeded on a configuration that lacks what the first
\* one had, on a session that had held a refreshed value.
C22_Witness ==
    /\ phase = "ready"
    /\ setup.err = "" /\ setup.calls = 0
    /\ vendor = setup.responses
    /\ data # NoData
    /\ \E id \in DOMAIN data : data[id] # None /\ id \notin DOMAIN inputs_map
    /\ inputs # <<>>

(***************************************************************************)
(* C23: after a successful discovery every input of installation i is in   *)
(* the input list of a group whose code is in groups[i], the list the      *)
(* refresh requests.                                                       *)
(***************************************************************************)
C23_InputCoveredByRequestedGroup ==
    phase = "ready" =>
        \A id \in DOMAIN inputs :
            \E g \in Range(vendor[id[1]].walk) :
                /\ g.inputGroupGetCode \in groups[id[1]]
                /\ \E e \in Range(g.inputList) :
                       <<id[1], e.deviceId, e.thingId, e.code>> = id

\* Inputs found in two different widget groups of one installation.
C23_Witness ==
    /\ phase = "ready"
    /\ \E id1 \in DOMAIN inputs, id2 \in DOMAIN inputs, g1 \in groups[1], g2 \in groups[1] :
           /\ id1[1] = 1 /\ id2[1] = 1 /\ id1 # id2 /\ g1 # g2
           /\ \E a \in Range(vendor[1].walk), b \in Range(vendor[1].walk) :
                  /\ a.inputGroupGetCode = g1 /\ b.inputGroupGetCode = g2
                  /\ \E e \in Range(a.inputList) : <<1, e.deviceId, e.thingId, e.code>> = id1
                  /\ \E e \in Range(b.inputList) : <<1, e.deviceId, e.thingId, e.code>> = id2
                  /\ ~ \E e \in Range(a.inputList) : <<1, e.deviceId, e.thingId, e.code>> = id2

(***************************************************************************)
(* C24: the step of set_value that follows a confirmed remote write        *)
(* changes the raw value of the input with the written key and nothing     *)
(* else of the session: the other inputs, the key set, every entity kind,  *)
(* groups, devices and installations stay, and the write has posted one    *)
(* request, for the one resource code of that input.                       *)
(***************************************************************************)
confirmed_write(w) ==
    wr[w].pc = "posted" /\ wr[w].resp = "errCode0" /\ wr'[w].pc = "returned"

C24_WriteChangesOneEntry ==
    [][\A w \in Writers :
        confirmed_write(w) =>
            LET id == inputs_map[wr[w].key]
            IN  /\ DOMAIN inputs' = DOMAIN inputs
                /\ \A o \in DOMAIN inputs \ {id} : inputs'[o] = inputs[o]
                /\ inputs'[id] = [inputs[id] EXCEPT !.value = inputs'[id].value]
                /\ \A o \in DOMAIN inputs : entity_type(inputs'[o]) = entity_type(inputs[o])
                /\ UNCHANGED <<inputs_map, groups, devices, installations>>
                /\ wr[w].posts = 1
                /\ DOMAIN wr[w].body.data = {inputs[id].input.code}
                /\ <<id[2], id[3]>> = <<wr[w].body.deviceId, wr[w].body.thingId>>
    ]_vars

\* A write has changed its input while another input of the same thing
\* holds a different refreshed value.
C24_Witness ==
    \E w \in Writers :
        /\ wr[w].pc = "returned" /\ wr[w].result = "data"
        /\ LET id == inputs_map[wr[w].key]
           IN  \E o \in DOMAIN inputs \ {id} :
                   /\ <<o[1], o[2], o[3]>> = <<id[1], id[2], id[3]>>
                   /\ inputs[o].value # None
                   /\ inputs[id].value # None
                   /\ inputs[o].value # inputs[id].value

(***************************************************************************)
(* C25: a boolean sensor with a raw value displays the negation of the raw *)
(* boolean when its device class is cold or presence, and the raw boolean  *)
(* when it is problem, running or window.                                  *)
(***************************************************************************)
C25_PolarityColdAndPresence ==
    \A id \in DOMAIN inputs :
        LET ni == inputs[id]
            b == IF ni.value[2] # 0 THEN 1 ELSE 0
        IN  (entity_type(ni) = "binary_sensor" /\ ni.value # None
             /\ binary_sensor_device_class(ni) # "KeyError")
            => normalized_value(ni) =
                   <<"bool", IF binary_sensor_device_class(ni) \in {"cold", "presence"}
                             THEN 1 - b ELSE b>>

(***************************************************************************)
(* C26: an input of a code scaled by two's-complement correction and       *)
(* division by 1000 (R8002, R8005, R8008, R8011) that holds a raw value v  *)
(* of 0..65535 displays v/1000 when v < 32768 and (v - 65536)/1000         *)
(* otherwise.  Displayed numbers are in thousandths.                       *)
(***************************************************************************)
C26_TwosComplementThousandths ==
    \A id \in DOMAIN inputs :
        LET ni == inputs[id]
        IN  (ni.input.code \in {"R8002", "R8005", "R8008", "R8011"}
             /\ ni.value # None /\ ni.value[2] \in 0..65535)
            => normalized_value(ni) =
                   <<"num", IF ni.value[2] < 32768 THEN ni.value[2]
                            ELSE ni.value[2] - 65536>>

\* R8002 holding raw 65535 displays -0.001.
C26_Witness ==
    \E id \in DOMAIN inputs :
        /\ inputs[id].input.code = "R8002"
        /\ inputs[id].value # None /\ inputs[id].value[2] = 65535
        /\ normalized_value(inputs[id]) = <<"num", -1>>

(***************************************************************************)
(* C27 as stated: the resolved unit is the override of the code when it    *)
(* has one, and otherwise the vendor unit mapped through the raw-unit      *)
(* table, "" when the table has no entry for it.                           *)
(***************************************************************************)
expected_override(code) ==
    CASE code = "R16494" -> "°C"
      [] code = "R8002" -> "kW"
      [] code = "R16493" -> "min"
      [] OTHER -> ""

expected_mapped(u) ==
    CASE u = <<"str", "HH:mm">> -> "min"
      [] u = <<"str", "watt/h">> -> "Wh"
      [] u = <<"str", "e/kw">> -> "€"
      [] OTHER -> ""

C28_WritesTargetWritableOnly ==
    \A w \in Writers :
        wr[w].posts > 0
        => entity_type(inputs[inputs_map[wr[w].key]]) \in {"switch", "number"}

(***************************************************************************)
(* C29: on a session that was discovered, every installation id of         *)
(* installations has its group list in groups, also after a re-login, and  *)
(* no refresh fails on a missing group list.                               *)
(***************************************************************************)
C29_InstallationsHaveTables ==
    phase = "ready" =>
        /\ \A n \in DOMAIN installations : installations[n] \in DOMAIN groups
        /\ rf.exc # "KeyError"

(***************************************************************************)
(* C30: once a write on key k has committed and its snapshot has been      *)
(* published, a refresh that fetched the installation of k before that     *)
(* write was submitted, and has fetched nothing for it since, does not     *)
(* change the published value of k when it publishes.                      *)
(***************************************************************************)
C30_WriteNotRevertedByRefresh ==
    [][(rf.pc = "done" /\ rf.outcome = "ok" /\ rf'.pc = "idle")
       => \A id \in rf.overtaken :
              data'[inputs[id].key] = data[inputs[id].key]]_vars

====
